---- MODULE Spec2Model ----
(***************************************************************************)
(* Model of src/src/io/free_functions.rs of the image crate: the format    *)
(* sniffer (guess_format over MAGIC_BYTES), the decoder dispatch           *)
(* (load_decoder) with its two visitors (LoadVisitor of load_inner,        *)
(* DimVisitor of image_dimensions_with_format_impl), and the encoder       *)
(* dispatch (save_buffer_impl, save_buffer_with_format_impl).              *)
(*                                                                         *)
(* Bytes and characters are their integer codes.  u64 quantities are       *)
(* modelled with WordBits bits: U64Max stands for u64::MAX.                *)
(***************************************************************************)
EXTENDS Integers, Sequences, FiniteSets, TLC

VARIABLES
    op,            \* which entry point this run exercises
    pc,            \* position inside the entry point
    result,        \* the ImageResult returned to the caller (NoResult while running)
    features,      \* cargo features of the build (#[cfg(feature = ..)])
    format,        \* the ImageFormat argument (or the one resolved from the path)
    buffer,        \* guess_format: the input byte slice
    visitor,       \* load_decoder: which DecoderVisitor was supplied
    self0,         \* LoadVisitor.0, the Limits the visitor was built with
    limits,        \* visit_decoder: the local `let mut limits`
    total_bytes,   \* visit_decoder: the local `total_bytes`
    calls,         \* decoder calls made so far, in order
    constructed,   \* decoders whose ::new was invoked, in order
    visited,       \* decoders handed to visitor.visit_decoder, in order
    limits_passed, \* the arguments decoder.set_limits was called with, in order
    set_limits_ok, \* what decoder.set_limits returned
    entry,         \* save: the function the caller entered
    ext,           \* save: path.extension() of the target path
    args,          \* save: the caller's buf, width, height, color
    file,          \* save: the file at the target path
    created,       \* save: number of successful File::create calls on the path
    enc_calls      \* save: encoder write operations invoked, in order

vars == <<op, pc, result, features, format, buffer, visitor, self0, limits,
          total_bytes, calls, constructed, visited, limits_passed,
          set_limits_ok, entry, ext, args, file, created, enc_calls>>

(***************************************************************************)
(* Bounds of the model.                                                    *)
(***************************************************************************)
WordBits == 4
MaxSuffixLen == 2

U64Modulus == 2 ^ WordBits
U64Max == U64Modulus - 1
U64 == 0 .. U64Max

(***************************************************************************)
(* ImageFormat, errors and results.                                        *)
(***************************************************************************)
ImageFormat ==
    {"Png", "Jpeg", "Gif", "WebP", "Pnm", "Tiff", "Tga", "Dds", "Bmp", "Ico",
     "Hdr", "Farbfeld", "Avif"}

NoFormat == "-"

NoResult == [ok |-> FALSE, kind |-> "-", hint |-> "-"]
Ok(what) == [ok |-> TRUE, kind |-> what, hint |-> "-"]
Err(kind, hint) == [ok |-> FALSE, kind |-> kind, hint |-> hint]

\* ImageError::Unsupported(ImageFormatHint::Exact(format).into())
UnsupportedExact(f) == Err("Unsupported", f)
\* ImageError::Unsupported(ImageFormatHint::Unknown.into())
UnsupportedUnknown == Err("Unsupported", "Unknown")
\* ImageError::Limits(LimitError::from_kind(LimitErrorKind::InsufficientMemory))
InsufficientMemory == Err("Limits", "InsufficientMemory")

(***************************************************************************)
(* Signature sniffer.                                                      *)
(***************************************************************************)
MAGIC_BYTES_ShortIco ==
    << <<<<137, 80, 78, 71, 13, 10, 26, 10>>, "Png">>,
       <<<<255, 216, 255>>, "Jpeg">>,
       <<<<71, 73, 70, 56, 57, 97>>, "Gif">>,
       <<<<71, 73, 70, 56, 55, 97>>, "Gif">>,
       <<<<82, 73, 70, 70>>, "WebP">>,
       <<<<77, 77, 0, 42>>, "Tiff">>,
       <<<<73, 73, 42, 0>>, "Tiff">>,
       <<<<68, 68, 83, 32>>, "Dds">>,
       <<<<66, 77>>, "Bmp">>,
       <<<<0, 0>>, "Ico">>,
       <<<<35, 63, 82, 65, 68, 73, 65, 78, 67, 69>>, "Hdr">>,
       <<<<80, 49>>, "Pnm">>,
       <<<<80, 50>>, "Pnm">>,
       <<<<80, 51>>, "Pnm">>,
       <<<<80, 52>>, "Pnm">>,
       <<<<80, 53>>, "Pnm">>,
       <<<<80, 54>>, "Pnm">>,
       <<<<80, 55>>, "Pnm">>,
       <<<<102, 97, 114, 98, 102, 101, 108, 100>>, "Farbfeld">>,
       <<<<0, 0, 0, 32, 102, 116, 121, 112, 97, 118, 105, 102>>, "Avif">> >>

MAGIC_BYTES ==
    << <<<<137, 80, 78, 71, 13, 10, 26, 10>>, "Png">>,
       <<<<255, 216, 255>>, "Jpeg">>,
       <<<<71, 73, 70, 56, 57, 97>>, "Gif">>,
       <<<<71, 73, 70, 56, 55, 97>>, "Gif">>,
       <<<<82, 73, 70, 70>>, "WebP">>,
       <<<<77, 77, 0, 42>>, "Tiff">>,
       <<<<73, 73, 42, 0>>, "Tiff">>,
       <<<<68, 68, 83, 32>>, "Dds">>,
       <<<<66, 77>>, "Bmp">>,
       <<<<0, 0, 1, 0>>, "Ico">>,
       <<<<35, 63, 82, 65, 68, 73, 65, 78, 67, 69>>, "Hdr">>,
       <<<<80, 49>>, "Pnm">>,
       <<<<80, 50>>, "Pnm">>,
       <<<<80, 51>>, "Pnm">>,
       <<<<80, 52>>, "Pnm">>,
       <<<<80, 53>>, "Pnm">>,
       <<<<80, 54>>, "Pnm">>,
       <<<<80, 55>>, "Pnm">>,
       <<<<102, 97, 114, 98, 102, 101, 108, 100>>, "Farbfeld">>,
       <<<<0, 0, 0, 32, 102, 116, 121, 112, 97, 118, 105, 102>>, "Avif">> >>

\* buffer == signature, a slip for buffer.starts_with(signature)
starts_with_WholeBuffer(buf, signature) == buf = signature

\* <[u8]>::starts_with
starts_with(buf, signature) ==
    /\ Len(signature) <= Len(buf)
    /\ \A k \in 1 .. Len(signature) : buf[k] = signature[k]

\* the `for &(signature, format) in table` loop, from entry i on
RECURSIVE scan(_, _, _)
scan(table, buf, i) ==
    IF i > Len(table) THEN "None"
    ELSE IF starts_with(buf, table[i][1]) THEN table[i][2]
    ELSE scan(table, buf, i + 1)

\* a loop that starts at the second entry
guess_format_impl_SkipFirst(buf) == scan(MAGIC_BYTES, buf, 2)

guess_format_impl(buf) == scan(MAGIC_BYTES, buf, 1)

guess_format(buf) ==
    IF guess_format_impl(buf) = "None" THEN UnsupportedUnknown
    ELSE Ok(guess_format_impl(buf))

\* Inputs of guess_format: every prefix of every signature (the whole signature
\* included), followed by every suffix of at most MaxSuffixLen bytes.
SuffixBytes == {0, 49, 80, 255}
Suffixes == UNION {[1 .. n -> SuffixBytes] : n \in 0 .. MaxSuffixLen}
Signatures == {MAGIC_BYTES[i][1] : i \in 1 .. Len(MAGIC_BYTES)}
Buffers ==
    UNION {{SubSeq(sig, 1, k) \o s : k \in 0 .. Len(sig), s \in Suffixes} :
           sig \in Signatures}

(***************************************************************************)
(* Build configuration: the cargo features the cfg attributes test.        *)
(***************************************************************************)
AllFeatures ==
    {"avif-decoder", "avif-encoder", "png", "gif", "jpeg", "webp", "tiff",
     "tga", "dds", "bmp", "ico", "hdr", "pnm", "farbfeld"}

\* the builds considered: every feature on, or every feature but one
FeatureSets == {AllFeatures} \cup {AllFeatures \ {x} : x \in AllFeatures}

(***************************************************************************)
(* Decoder dispatch: load_decoder.                                         *)
(***************************************************************************)
\* the #[cfg(feature = ..)] guarding each arm of the match in load_decoder
DecoderFeature(f) ==
    CASE f = "Avif" -> "avif-decoder"
      [] f = "Png" -> "png"
      [] f = "Gif" -> "gif"
      [] f = "Jpeg" -> "jpeg"
      [] f = "WebP" -> "webp"
      [] f = "Tiff" -> "tiff"
      [] f = "Tga" -> "tga"
      [] f = "Dds" -> "dds"
      [] f = "Bmp" -> "bmp"
      [] f = "Ico" -> "ico"
      [] f = "Hdr" -> "hdr"
      [] f = "Pnm" -> "pnm"
      [] f = "Farbfeld" -> "farbfeld"

HasDecoderArm(f, feats) == DecoderFeature(f) \in feats

\* the Tga arm constructing the Tiff decoder, a copy-and-paste slip
DecoderOf_TgaAsTiff(f) ==
    CASE f = "Avif" -> "AvifDecoder"
      [] f = "Png" -> "PngDecoder"
      [] f = "Gif" -> "GifDecoder"
      [] f = "Jpeg" -> "JpegDecoder"
      [] f = "WebP" -> "WebPDecoder"
      [] f = "Tiff" -> "TiffDecoder"
      [] f = "Tga" -> "TiffDecoder"
      [] f = "Dds" -> "DdsDecoder"
      [] f = "Bmp" -> "BmpDecoder"
      [] f = "Ico" -> "IcoDecoder"
      [] f = "Hdr" -> "HdrAdapter"
      [] f = "Pnm" -> "PnmDecoder"
      [] f = "Farbfeld" -> "FarbfeldDecoder"

\* the decoder type each arm constructs
DecoderOf(f) ==
    CASE f = "Avif" -> "AvifDecoder"
      [] f = "Png" -> "PngDecoder"
      [] f = "Gif" -> "GifDecoder"
      [] f = "Jpeg" -> "JpegDecoder"
      [] f = "WebP" -> "WebPDecoder"
      [] f = "Tiff" -> "TiffDecoder"
      [] f = "Tga" -> "TgaDecoder"
      [] f = "Dds" -> "DdsDecoder"
      [] f = "Bmp" -> "BmpDecoder"
      [] f = "Ico" -> "IcoDecoder"
      [] f = "Hdr" -> "HdrAdapter"
      [] f = "Pnm" -> "PnmDecoder"
      [] f = "Farbfeld" -> "FarbfeldDecoder"

\* where visitor.visit_decoder starts, per DecoderVisitor implementation
VisitorEntry(v) ==
    IF v = "LoadVisitor" THEN "visit_total_bytes" ELSE "visit_dimensions"

(***************************************************************************)
(* Limits: only max_alloc: Option<u64> is read or written here.            *)
(***************************************************************************)
None == [some |-> FALSE, v |-> 0]
Some(n) == [some |-> TRUE, v |-> n]
LimitsValues == {None} \cup {Some(n) : n \in U64}

\* `*max_alloc > total_bytes`, the comparison turned around
ExceedsBudget_Inverted(max_alloc, total) == max_alloc > total

\* `*max_alloc < total_bytes`
ExceedsBudget(max_alloc, total) == max_alloc < total

\* `*max_alloc -= total_bytes` on u64 (wrapping in a release build)
Debit(max_alloc, total) == (max_alloc - total) % U64Modulus

\* the argument of `decoder.set_limits(self.0)`: Limits is Copy, so `limits`
\* of line 108 is a copy and self.0 still holds the value the visitor was
\* built with
SetLimitsArg(selfLimits, localLimits) == selfLimits

\* set_limits' result discarded instead of `?`
AfterSetLimits_Ignored(ok) == "visit_decode"

\* the `?` after decoder.set_limits(..)
AfterSetLimits(ok) == IF ok THEN "visit_decode" ELSE "done"

(***************************************************************************)
(* Encoder dispatch: save_buffer_impl, save_buffer_with_format_impl.       *)
(***************************************************************************)
\* path.extension(): None, or Some(OsStr) that is or is not valid UTF-8
NoExt == [tag |-> "None", s |-> <<>>]
NonUtf8Ext == [tag |-> "NonUtf8", s |-> <<>>]
Utf8Ext(s) == [tag |-> "Utf8", s |-> s]

pbm == <<112, 98, 109>>
pgm == <<112, 103, 109>>
ppm == <<112, 112, 109>>
pam == <<112, 97, 109>>

\* every upper/lower-case spelling of an all-lower-case word
CaseVariants(w) ==
    {t \in [1 .. Len(w) -> UNION {{w[k], w[k] - 32} : k \in 1 .. Len(w)}] :
        \A k \in 1 .. Len(w) : t[k] \in {w[k], w[k] - 32}}

\* png, PNG, pnm, pg, "", pgmx, gif, webp, xyz
OtherExtWords ==
    {<<112, 110, 103>>, <<80, 78, 71>>, <<112, 110, 109>>, <<112, 103>>, <<>>,
     <<112, 103, 109, 120>>, <<103, 105, 102>>, <<119, 101, 98, 112>>,
     <<120, 121, 122>>}

Exts ==
    {NoExt, NonUtf8Ext}
        \cup {Utf8Ext(s) : s \in UNION {CaseVariants(w) : w \in {pbm, pgm, ppm, pam}}}
        \cup {Utf8Ext(s) : s \in OtherExtWords}

\* str::to_ascii_lowercase left out
to_ascii_lowercase_Identity(s) == s

\* str::to_ascii_lowercase: 'A'..='Z' map to 'a'..='z', all else is kept
to_ascii_lowercase(s) ==
    [k \in 1 .. Len(s) |-> IF s[k] >= 65 /\ s[k] <= 90 THEN s[k] + 32 ELSE s[k]]

\* path.extension().and_then(|s| s.to_str()).map_or("".to_string(), |s| s.to_ascii_lowercase())
LowerExt(e) == IF e.tag = "Utf8" THEN to_ascii_lowercase(e.s) ELSE <<>>

\* the inner match of the Pnm arm; "default" is PnmEncoder::new without with_subtype
PnmSubtype(e) ==
    CASE e = pbm -> "Bitmap(Binary)"
      [] e = pgm -> "Graymap(Binary)"
      [] e = ppm -> "Pixmap(Binary)"
      [] e = pam -> "default"
      [] OTHER -> "unsupported"

\* ImageFormat::from_path: the extension, compared case-insensitively, looked up
\* in a static table; NoFormat stands for the Unsupported error
from_path(e) ==
    LET x == LowerExt(e) IN
    CASE e.tag # "Utf8" -> NoFormat
      [] x = <<112, 110, 103>> -> "Png"
      [] x = <<103, 105, 102>> -> "Gif"
      [] x = <<119, 101, 98, 112>> -> "WebP"
      [] x \in {pbm, pgm, ppm, pam} -> "Pnm"
      [] OTHER -> NoFormat

\* the #[cfg(feature = ..)] guarding each arm of the match in
\* save_buffer_with_format_impl; "-" for a format without an arm
EncoderFeature(f) ==
    CASE f = "Gif" -> "gif"
      [] f = "Ico" -> "ico"
      [] f = "Jpeg" -> "jpeg"
      [] f = "Png" -> "png"
      [] f = "Pnm" -> "pnm"
      [] f = "Farbfeld" -> "farbfeld"
      [] f = "Avif" -> "avif-encoder"
      [] f = "Bmp" -> "bmp"
      [] f = "Tiff" -> "tiff"
      [] f = "Tga" -> "tga"
      [] OTHER -> "-"

HasEncoderArm(f, feats) == EncoderFeature(f) \in feats

\* the encoder type each arm constructs
EncoderOf(f) ==
    CASE f = "Gif" -> "GifEncoder"
      [] f = "Ico" -> "IcoEncoder"
      [] f = "Jpeg" -> "JpegEncoder"
      [] f = "Png" -> "PngEncoder"
      [] f = "Pnm" -> "PnmEncoder"
      [] f = "Farbfeld" -> "FarbfeldEncoder"
      [] f = "Avif" -> "AvifEncoder"
      [] f = "Bmp" -> "BmpEncoder"
      [] f = "Tiff" -> "TiffEncoder"
      [] f = "Tga" -> "TgaEncoder"

\* the write method each arm calls
EncoderMethod(f) == IF f = "Gif" THEN "encode" ELSE "write_image"

\* width and height passed in the wrong order
EncoderCall_Swapped(f, subtype, a) ==
    [encoder |-> EncoderOf(f), method |-> EncoderMethod(f), subtype |-> subtype,
     buf |-> a.buf, width |-> a.height, height |-> a.width, color |-> a.color]

\* <Encoder>::new(fout)[.with_subtype(subtype)].write_image(buf, width, height, color)
EncoderCall(f, subtype, a) ==
    [encoder |-> EncoderOf(f), method |-> EncoderMethod(f), subtype |-> subtype,
     buf |-> a.buf, width |-> a.width, height |-> a.height, color |-> a.color]

\* the caller's buffer, width, height and color type
Args ==
    {[buf |-> <<10, 20>>, width |-> 1, height |-> 2, color |-> "L8"],
     [buf |-> <<1, 2, 3, 4, 5, 6>>, width |-> 2, height |-> 1, color |-> "Rgb8"]}
NoArgs == [buf |-> <<>>, width |-> 0, height |-> 0, color |-> "-"]

\* the file at the path before the call: missing, or present with older content
FilesBefore == {"absent", "old"}

\* save_buffer_with_format_impl matching on the format before creating the file
sbf_first_MatchFirst == "sbf_match"

\* the first statement of save_buffer_with_format_impl
sbf_first == "sbf_create"

EntryPc(e) == IF e = "save_buffer_impl" THEN "sb_create" ELSE sbf_first

(***************************************************************************)
(* Initial states: one call of one entry point, with its arguments.        *)
(***************************************************************************)
InitGuess ==
    /\ op = "guess_format"
    /\ pc = "guess"
    /\ buffer \in Buffers
    /\ features = AllFeatures
    /\ format = NoFormat
    /\ visitor = "-"
    /\ self0 = None
    /\ entry = "-"
    /\ ext = NoExt
    /\ args = NoArgs
    /\ file = "absent"

InitLoad ==
    /\ op = "load_decoder"
    /\ pc = "load_decoder"
    /\ buffer = <<>>
    /\ features \in FeatureSets
    /\ format \in ImageFormat
    /\ \/ visitor = "LoadVisitor" /\ self0 \in LimitsValues
       \/ visitor = "DimVisitor" /\ self0 = None
    /\ entry = "-"
    /\ ext = NoExt
    /\ args = NoArgs
    /\ file = "absent"

InitSave ==
    /\ op = "save"
    /\ buffer = <<>>
    /\ features \in FeatureSets
    /\ \/ entry = "save_buffer_impl" /\ format = NoFormat
       \/ entry = "save_buffer_with_format_impl" /\ format \in ImageFormat
    /\ pc = EntryPc(entry)
    /\ visitor = "-"
    /\ self0 = None
    /\ ext \in Exts
    /\ args \in Args
    /\ file \in FilesBefore

Init ==
    /\ InitGuess \/ InitLoad \/ InitSave
    /\ result = NoResult
    /\ limits = None
    /\ total_bytes = 0
    /\ calls = <<>>
    /\ constructed = <<>>
    /\ visited = <<>>
    /\ limits_passed = <<>>
    /\ set_limits_ok = "-"
    /\ created = 0
    /\ enc_calls = <<>>

(***************************************************************************)
(* Actions.                                                                *)
(***************************************************************************)
inputVars == <<op, features, buffer, visitor, self0, entry, ext, args>>
loadVars == <<limits, total_bytes, calls, constructed, visited, limits_passed, set_limits_ok>>
saveVars == <<file, created, enc_calls>>

\* guess_format(buffer)
GuessFormat ==
    /\ pc = "guess"
    /\ result' = guess_format(buffer)
    /\ pc' = "done"
    /\ UNCHANGED <<inputVars, format, loadVars, saveVars>>

\* load_decoder: the match on format, the decoder's construction (which may
\* fail) and the hand-over to visitor.visit_decoder
LoadDecoder ==
    /\ pc = "load_decoder"
    /\ IF ~HasDecoderArm(format, features)
       THEN /\ result' = UnsupportedExact(format)
            /\ pc' = "done"
            /\ UNCHANGED <<constructed, visited>>
       ELSE \E ok \in BOOLEAN :
            /\ constructed' = Append(constructed, DecoderOf(format))
            /\ IF ok
               THEN /\ visited' = Append(visited, DecoderOf(format))
                    /\ pc' = VisitorEntry(visitor)
                    /\ UNCHANGED result
               ELSE /\ result' = Err("DecoderNew", DecoderOf(format))
                    /\ pc' = "done"
                    /\ UNCHANGED visited
    /\ UNCHANGED <<inputVars, format, saveVars, limits, total_bytes, calls,
                   limits_passed, set_limits_ok>>

\* DimVisitor::visit_decoder
VisitDimensions ==
    /\ pc = "visit_dimensions"
    /\ calls' = Append(calls, "dimensions")
    /\ result' = Ok("Dimensions")
    /\ pc' = "done"
    /\ UNCHANGED <<inputVars, format, saveVars, limits, total_bytes, constructed,
                   visited, limits_passed, set_limits_ok>>

\* LoadVisitor::visit_decoder: `let mut limits = self.0;` and
\* `let total_bytes = decoder.total_bytes();`
VisitTotalBytes ==
    /\ pc = "visit_total_bytes"
    /\ limits' = self0
    /\ \E t \in U64 : total_bytes' = t
    /\ calls' = Append(calls, "total_bytes")
    /\ pc' = "visit_check"
    /\ UNCHANGED <<inputVars, format, saveVars, result, constructed, visited,
                   limits_passed, set_limits_ok>>

\* LoadVisitor::visit_decoder: the `if let Some(max_alloc)` block
VisitCheckDebit ==
    /\ pc = "visit_check"
    /\ IF limits.some
       THEN IF ExceedsBudget(limits.v, total_bytes)
            THEN /\ result' = InsufficientMemory
                 /\ pc' = "done"
                 /\ UNCHANGED <<limits, calls>>
            ELSE /\ limits' = Some(Debit(limits.v, total_bytes))
                 /\ calls' = Append(calls, "debit")
                 /\ pc' = "visit_set_limits"
                 /\ UNCHANGED result
       ELSE /\ pc' = "visit_set_limits"
            /\ UNCHANGED <<limits, calls, result>>
    /\ UNCHANGED <<inputVars, format, saveVars, total_bytes, constructed, visited,
                   limits_passed, set_limits_ok>>

\* LoadVisitor::visit_decoder: `decoder.set_limits(self.0)?;`
VisitSetLimits ==
    /\ pc = "visit_set_limits"
    /\ limits_passed' = Append(limits_passed, SetLimitsArg(self0, limits))
    /\ calls' = Append(calls, "set_limits")
    /\ \E ok \in BOOLEAN :
        /\ set_limits_ok' = IF ok THEN "Ok" ELSE "Err"
        /\ pc' = AfterSetLimits(ok)
        /\ result' = IF AfterSetLimits(ok) = "done"
                     THEN Err("SetLimits", DecoderOf(format)) ELSE result
    /\ UNCHANGED <<inputVars, format, saveVars, limits, total_bytes, constructed,
                   visited>>

\* LoadVisitor::visit_decoder: `DynamicImage::from_decoder(decoder)`
VisitDecode ==
    /\ pc = "visit_decode"
    /\ calls' = Append(calls, "decode")
    /\ \E ok \in BOOLEAN :
        result' = IF ok THEN Ok("DynamicImage") ELSE Err("Decode", DecoderOf(format))
    /\ pc' = "done"
    /\ UNCHANGED <<inputVars, format, saveVars, limits, total_bytes, constructed,
                   visited, limits_passed, set_limits_ok>>

\* File::create(path)?: creates the file or truncates it, or fails and
\* leaves the path as it was
FileCreate(next) ==
    \E ok \in BOOLEAN :
        IF ok
        THEN /\ file' = "empty"
             /\ created' = created + 1
             /\ pc' = next
             /\ UNCHANGED result
        ELSE /\ result' = Err("IoError", "File::create")
             /\ pc' = "done"
             /\ UNCHANGED <<file, created>>

\* save_buffer_impl: `let fout = &mut BufWriter::new(File::create(path)?);`
SaveBufferCreate ==
    /\ pc = "sb_create"
    /\ FileCreate("sb_from_path")
    /\ UNCHANGED <<inputVars, format, loadVars, enc_calls>>

\* save_buffer_impl: `let format = ImageFormat::from_path(path)?;` and the
\* call of save_buffer_with_format_impl
SaveBufferFromPath ==
    /\ pc = "sb_from_path"
    /\ IF from_path(ext) = NoFormat
       THEN /\ result' = Err("Unsupported", "PathExtension")
            /\ pc' = "done"
            /\ UNCHANGED format
       ELSE /\ format' = from_path(ext)
            /\ pc' = sbf_first
            /\ UNCHANGED result
    /\ UNCHANGED <<inputVars, loadVars, saveVars>>

\* save_buffer_with_format_impl: `let fout = &mut BufWriter::new(File::create(path)?);`
SaveWithFormatCreate ==
    /\ pc = "sbf_create"
    /\ FileCreate("sbf_match")
    /\ UNCHANGED <<inputVars, format, loadVars, enc_calls>>

\* save_buffer_with_format_impl: the match on format, and the encoder's write
SaveWithFormatMatch ==
    /\ pc = "sbf_match"
    /\ pc' = "done"
    /\ LET subtype == IF format = "Pnm" THEN PnmSubtype(LowerExt(ext)) ELSE "-" IN
       IF ~HasEncoderArm(format, features) \/ subtype = "unsupported"
       THEN /\ result' = UnsupportedExact(format)
            /\ UNCHANGED <<file, enc_calls>>
       ELSE /\ enc_calls' = Append(enc_calls, EncoderCall(format, subtype, args))
            /\ \E ok \in BOOLEAN :
                /\ result' = IF ok THEN Ok("()") ELSE Err("Encode", EncoderOf(format))
                /\ file' = IF ok THEN "encoded" ELSE "partial"
    /\ UNCHANGED <<inputVars, format, loadVars, created>>

Next ==
    \/ GuessFormat
    \/ LoadDecoder
    \/ VisitDimensions
    \/ VisitTotalBytes
    \/ VisitCheckDebit
    \/ VisitSetLimits
    \/ VisitDecode
    \/ SaveBufferCreate
    \/ SaveBufferFromPath
    \/ SaveWithFormatCreate
    \/ SaveWithFormatMatch

Spec == Init /\ [][Next]_vars

(***************************************************************************)
(* Properties.                                                             *)
(***************************************************************************)
IsPrefix(sig, b) == Len(sig) <= Len(b) /\ SubSeq(b, 1, Len(sig)) = sig
Matching(b) == {i \in 1 .. Len(MAGIC_BYTES) : IsPrefix(MAGIC_BYTES[i][1], b)}
FirstOf(S) == CHOOSE i \in S : \A j \in S : i <= j
Reverse(s) == [i \in 1 .. Len(s) |-> s[Len(s) + 1 - i]]
EqIgnoreCase(s, w) ==
    Len(s) = Len(w) /\ \A k \in 1 .. Len(w) : s[k] = w[k] \/ s[k] = w[k] - 32
InLoadVisitor == op = "load_decoder" /\ visitor = "LoadVisitor"
GuessDone == op = "guess_format" /\ pc = "done"

\* C1: in the materializing visitor, with a bounded budget max_alloc = Some(N)
\* and total_bytes = T <= N, the Limits handed to decoder.set_limits carries
\* the remaining budget, max_alloc = Some(N - T) (0 when T = N).
C1_SetLimitsGetsRemainingBudget ==
    (InLoadVisitor /\ self0.some)
        => \A i \in 1 .. Len(limits_passed) :
               limits_passed[i] = Some(self0.v - total_bytes)

\* C2: with a bounded budget Some(N) and total_bytes = T > N the visitor fails
\* with Limits(InsufficientMemory); after total_bytes() no decoder call is
\* made (no set_limits, no decode) and max_alloc - total_bytes is never computed.
C2_OverBudgetFailsFast ==
    (InLoadVisitor /\ self0.some /\ calls # <<>> /\ total_bytes > self0.v)
        => /\ calls = <<"total_bytes">>
           /\ limits_passed = <<>>
           /\ limits = self0
           /\ pc \in {"visit_check", "done"}
           /\ pc = "done" => result = InsufficientMemory

C2_Witness ==
    /\ InLoadVisitor /\ pc = "done"
    /\ self0.some /\ self0.v < U64Max /\ total_bytes = U64Max
    /\ result = InsufficientMemory

\* C3: for every entry (sig, F) of MAGIC_BYTES and every suffix s,
\* guess_format(sig ++ s) returns Ok(F).
C3_EveryEntryIsRecognised ==
    GuessDone
        => \A i \in 1 .. Len(MAGIC_BYTES) :
               IsPrefix(MAGIC_BYTES[i][1], buffer) => result = Ok(MAGIC_BYTES[i][2])

C3_Witness ==
    /\ GuessDone
    /\ buffer = <<0, 0, 0, 32, 102, 116, 121, 112, 97, 118, 105, 102, 80, 49>>
    /\ result = Ok("Avif")

\* C4: guess_format(b) returns the Format of the first entry in table order
\* whose signature is a prefix of b, and Err(Unsupported(Unknown)) exactly
\* when no entry's signature is a prefix of b.
C4_FirstMatchOrUnknown ==
    GuessDone
        => IF Matching(buffer) = {}
           THEN result = UnsupportedUnknown
           ELSE result = Ok(MAGIC_BYTES[FirstOf(Matching(buffer))][2])

C4_Witness ==
    /\ GuessDone
    /\ buffer = <<71, 73, 70, 56>>
    /\ result = UnsupportedUnknown

CodecOf ==
    [f \in ImageFormat |->
        CASE f = "Avif" -> "AvifDecoder"
          [] f = "Png" -> "PngDecoder"
          [] f = "Gif" -> "GifDecoder"
          [] f = "Jpeg" -> "JpegDecoder"
          [] f = "WebP" -> "WebPDecoder"
          [] f = "Tiff" -> "TiffDecoder"
          [] f = "Tga" -> "TgaDecoder"
          [] f = "Dds" -> "DdsDecoder"
          [] f = "Bmp" -> "BmpDecoder"
          [] f = "Ico" -> "IcoDecoder"
          [] f = "Hdr" -> "HdrAdapter"
          [] f = "Pnm" -> "PnmDecoder"
          [] f = "Farbfeld" -> "FarbfeldDecoder"]

\* C5: load_decoder invokes the visitor at most once, only with the decoder of
\* the codec matching format and only after constructing it succeeded; without
\* an enabled decoder arm it fails with Unsupported(Exact(format)), constructs
\* nothing and never invokes the visitor; a failed construction is returned as
\* the error and the visitor is never invoked; no other decoder is tried.
C5_VisitorOnlyWithMatchingDecoder ==
    op = "load_decoder"
        => /\ Len(visited) <= 1
           /\ constructed \in {<<>>, <<CodecOf[format]>>}
           /\ visited \in {<<>>, constructed}
           /\ calls # <<>> => visited # <<>>
           /\ (pc # "load_decoder" /\ DecoderFeature(format) \notin features)
                  => /\ pc = "done"
                     /\ result = UnsupportedExact(format)
                     /\ constructed = <<>>
                     /\ visited = <<>>
           /\ (pc # "load_decoder" /\ constructed # <<>> /\ visited = <<>>)
                  => /\ pc = "done"
                     /\ result = Err("DecoderNew", CodecOf[format])

C5_Witness ==
    /\ op = "load_decoder" /\ pc = "done"
    /\ format = "WebP" /\ "webp" \notin features
    /\ result = UnsupportedExact("WebP")
    /\ constructed = <<>> /\ visited = <<>>

SaveMatched ==
    /\ op = "save" /\ pc = "done"
    /\ format \in ImageFormat
    /\ result.kind # "IoError"

ExpectedPnmSubtype ==
    CASE ext.tag = "Utf8" /\ EqIgnoreCase(ext.s, pbm) -> "Bitmap(Binary)"
      [] ext.tag = "Utf8" /\ EqIgnoreCase(ext.s, pgm) -> "Graymap(Binary)"
      [] ext.tag = "Utf8" /\ EqIgnoreCase(ext.s, ppm) -> "Pixmap(Binary)"
      [] ext.tag = "Utf8" /\ EqIgnoreCase(ext.s, pam) -> "default"
      [] OTHER -> "unsupported"

\* C6: with format Pnm the subtype comes from the path's extension compared
\* case-insensitively: pbm -> Bitmap(Binary), pgm -> Graymap(Binary),
\* ppm -> Pixmap(Binary), pam -> the encoder's default (no with_subtype); any
\* other or missing extension fails as Unsupported without a write.
C6_PnmSubtypeFromExtension ==
    (SaveMatched /\ format = "Pnm" /\ "pnm" \in features)
        => IF ExpectedPnmSubtype = "unsupported"
           THEN result = UnsupportedExact("Pnm") /\ enc_calls = <<>>
           ELSE /\ Len(enc_calls) = 1
                /\ enc_calls[1].encoder = "PnmEncoder"
                /\ enc_calls[1].method = "write_image"
                /\ enc_calls[1].subtype = ExpectedPnmSubtype

C6_Witness ==
    /\ SaveMatched /\ format = "Pnm"
    /\ ext = Utf8Ext(<<80, 71, 77>>)
    /\ Len(enc_calls) = 1
    /\ enc_calls[1].subtype = "Graymap(Binary)"

ExpectedEncoder ==
    [f \in ImageFormat |->
        CASE f = "Gif" -> "GifEncoder"
          [] f = "Ico" -> "IcoEncoder"
          [] f = "Jpeg" -> "JpegEncoder"
          [] f = "Png" -> "PngEncoder"
          [] f = "Pnm" -> "PnmEncoder"
          [] f = "Farbfeld" -> "FarbfeldEncoder"
          [] f = "Avif" -> "AvifEncoder"
          [] f = "Bmp" -> "BmpEncoder"
          [] f = "Tiff" -> "TiffEncoder"
          [] f = "Tga" -> "TgaEncoder"
          [] OTHER -> "-"]

NoEncoderRun == result = UnsupportedExact(format) /\ enc_calls = <<>>

OneEncoderRun ==
    /\ Len(enc_calls) = 1
    /\ enc_calls[1].encoder = ExpectedEncoder[format]
    /\ enc_calls[1].buf = args.buf
    /\ enc_calls[1].width = args.width
    /\ enc_calls[1].height = args.height
    /\ enc_calls[1].color = args.color

FormatsWithoutEncoder == {f \in ImageFormat : ~HasEncoderArm(f, AllFeatures)}

IsPrefixOfCalls(full) == Len(calls) <= Len(full) /\ calls = SubSeq(full, 1, Len(calls))

\* C8: the materializing visitor calls the decoder in the fixed order
\* total_bytes -> (check and debit) -> set_limits -> decode; decode starts
\* only after set_limits returned Ok, and an error of set_limits is returned
\* to the caller without decode being called.
C8_DecoderCallOrder ==
    InLoadVisitor
        => /\ IF self0.some
              THEN IsPrefixOfCalls(<<"total_bytes", "debit", "set_limits", "decode">>)
              ELSE IsPrefixOfCalls(<<"total_bytes", "set_limits", "decode">>)
           /\ (pc = "visit_decode" \/ (calls # <<>> /\ calls[Len(calls)] = "decode"))
                  => set_limits_ok = "Ok"
           /\ set_limits_ok = "Err"
                  => /\ pc = "done"
                     /\ result = Err("SetLimits", CodecOf[format])
                     /\ calls[Len(calls)] = "set_limits"

C8_Witness ==
    /\ InLoadVisitor /\ pc = "done"
    /\ set_limits_ok = "Err"
    /\ calls = <<"total_bytes", "debit", "set_limits">>
    /\ result.kind = "SetLimits"

NoSignatureIsPrefixOfAnother ==
    \A i, j \in 1 .. Len(MAGIC_BYTES) :
        i # j => ~IsPrefix(MAGIC_BYTES[i][1], MAGIC_BYTES[j][1])

\* C9: MAGIC_BYTES is prefix-free: no signature is a prefix of, or equal to,
\* another entry's signature; so at most one entry matches any input and
\* guess_format gives the same result with the table in another order.
C9_TableIsPrefixFree ==
    /\ NoSignatureIsPrefixOfAnother
    /\ GuessDone
        => /\ Cardinality(Matching(buffer)) <= 1
           /\ result.ok => result.kind = scan(Reverse(MAGIC_BYTES), buffer, 1)
           /\ ~result.ok => scan(Reverse(MAGIC_BYTES), buffer, 1) = "None"

C9_Witness ==
    /\ GuessDone
    /\ buffer = <<0, 0, 1, 0, 0, 0>>
    /\ Matching(buffer) = {10}
    /\ result = Ok("Ico")

\* C10: both save functions create (and truncate) the file before the format
\* is resolved and the encoder selected: a save ending in an Unsupported error
\* has created or emptied the file, and a failed save leaves the path
\* untouched only when File::create itself failed.
C10_FileCreatedBeforeDispatch ==
    (op = "save" /\ pc = "done")
        => /\ result.kind = "Unsupported" => created >= 1 /\ file = "empty"
           /\ (~result.ok /\ created = 0)
                  => result = Err("IoError", "File::create") /\ file \in FilesBefore

C10_Witness ==
    /\ op = "save" /\ pc = "done"
    /\ entry = "save_buffer_impl"
    /\ result = Err("Unsupported", "PathExtension")
    /\ created = 1 /\ file = "empty"

====
